---- MODULE Spec2Model ----
(***************************************************************************)
(* PharmaChain (src/backend/file1.sol): a permissioned registry of         *)
(* medicine records with a custody state machine; and the risk banding of  *)
(* the front end (src/script.js), which shows the band of a risk score.    *)
(*                                                                         *)
(* One transaction is one step.  A require that fails reverts the whole    *)
(* transaction: storage is left as it was and no event is emitted.  The    *)
(* model keeps, beside the contract's storage, the outcome of the last     *)
(* transaction: the function called, msg.sender and the id addressed (tx), *)
(* the status, owner and exists flag that id's record had before the call  *)
(* (tx.before), the revert message or "" (tx.revert) and the events the    *)
(* transaction emitted, in order (emitted).  The audit log of the          *)
(* specification is the concatenation of emitted over the transactions.    *)
(*                                                                         *)
(* uint256 values stay far below 2^256 within the bounds below, so the     *)
(* contract's arithmetic is the arithmetic of the integers here.           *)
(***************************************************************************)
EXTENDS Integers, Sequences, FiniteSets, TLC

VARIABLES medicines, shelfLifePolicy, authorizedManufacturers,
          authorizedDistributors, admin, now, tx, emitted,
          riskScore, riskLevel

storage == <<medicines, shelfLifePolicy, authorizedManufacturers,
             authorizedDistributors, admin>>
(* the front end: the score of the row last built and the band found for it *)
page == <<riskScore, riskLevel>>
vars == <<medicines, shelfLifePolicy, authorizedManufacturers,
          authorizedDistributors, admin, now, tx, emitted, riskScore, riskLevel>>

----------------------------------------------------------------------------
(* enum Status *)
Manufactured == 0
InTransit == 1
AtRetailer == 2
Sold == 3
Recalled == 4
Expired == 5
Verified == 6
Status == {Manufactured, InTransit, AtRetailer, Sold, Recalled, Expired, Verified}

(* `30 days` in seconds *)
ThirtyDays == 2592000

----------------------------------------------------------------------------
(* Bounds and input sets *)
MaxTicks == 1
MaxMonths == 1

Deployer == "admin"
ZeroAddress == "0x0"
Addresses == {"admin", "alice"}

MedicineIds == {"M-1", "M-2"}
(* the ids the transactions of Spec address *)
TargetIds == {"M-1"}
Names == {"Paracetamol", "Insulin"}
(* the locations given to updateCheckpoint *)
CheckpointLocations == {"13.0,80.2"}
Reasons == {"Contamination"}

(* batch ids as byte strings: "B-1", "B-9" and "B-10", which has "B-1" as a prefix *)
B1 == <<66, 45, 49>>
B9 == <<66, 45, 57>>
B10 == <<66, 45, 49, 48>>
BatchIds == {B1, B9, B10}

StartTime == ThirtyDays
TickStep == ThirtyDays
MaxTime == StartTime + MaxTicks * TickStep

(* the arguments of registerMedicine other than the id *)
RegisterArgs ==
    { [batchId |-> B1, name |-> "Paracetamol", weight |-> 500,
       location |-> "12.9,77.6", expiryDate |-> 2 * ThirtyDays],
      [batchId |-> B10, name |-> "Insulin", weight |-> 10,
       location |-> "28.6,77.2", expiryDate |-> 4 * ThirtyDays] }

----------------------------------------------------------------------------
(* The front end.  A score is a JavaScript number: here a count of         *)
(* thousandths (350 is 0.35), or NaN, which parseFloat gives for text that *)
(* is no number and which no comparison holds of.                          *)
MaxScore == 1000
Number(n) == [isNaN |-> FALSE, value |-> n]
NaN == [isNaN |-> TRUE, value |-> 0]
Scores == {Number(n) : n \in 0..MaxScore} \cup {NaN}

(* before any row of the history is built *)
NoScore == Number(0)
NoLevel == [max |-> 0, label |-> "", cls |-> ""]

RISK_LEVELS ==
    [LOW    |-> [max |-> 350,  label |-> "LOW RISK - SAFE TO PROCEED",  cls |-> "risk-low"],
     MEDIUM |-> [max |-> 650,  label |-> "MEDIUM RISK - INSPECT BATCH", cls |-> "risk-medium"],
     HIGH   |-> [max |-> 1000, label |-> "HIGH RISK - FLAG FOR REVIEW", cls |-> "risk-high"]]

(* score <= max of JavaScript numbers, max a number that is not NaN *)
LessOrEqual(score, max) == ~score.isNaN /\ score.value <= max

(* score < max of JavaScript numbers *)
LessThan(score, max) == ~score.isNaN /\ score.value < max

(* getRiskLevel with the boundaries in the upper band *)
getRiskLevelStrict(score) ==
    IF LessThan(score, RISK_LEVELS.LOW.max) THEN RISK_LEVELS.LOW
    ELSE IF LessThan(score, RISK_LEVELS.MEDIUM.max) THEN RISK_LEVELS.MEDIUM
    ELSE RISK_LEVELS.HIGH

getRiskLevel(score) ==
    IF LessOrEqual(score, RISK_LEVELS.LOW.max) THEN RISK_LEVELS.LOW
    ELSE IF LessOrEqual(score, RISK_LEVELS.MEDIUM.max) THEN RISK_LEVELS.MEDIUM
    ELSE RISK_LEVELS.HIGH

(* a row of the movement history is built: lines 442-443 *)
ShowRisk(score) ==
    /\ riskScore' = score
    /\ riskLevel' = getRiskLevel(score)
    /\ UNCHANGED <<storage, now, tx, emitted>>

----------------------------------------------------------------------------
(* keccak256(bytes(s)): a digest that tells apart every two byte strings   *)
(* of the bounded domain (bytes below HashBase, at most four of them).     *)
HashBase == 131

RECURSIVE keccak256(_)
keccak256(b) ==
    IF b = <<>> THEN 0
    ELSE keccak256(SubSeq(b, 1, Len(b) - 1)) * HashBase + b[Len(b)] + 1

(* a storage slot never written: the zero-valued Medicine *)
EmptyMedicine ==
    [medicineId |-> "", batchId |-> <<>>, name |-> "", expectedWeight |-> 0,
     manufacturerLoc |-> "", manufactureDate |-> 0, expiryDate |-> 0,
     currentOwner |-> ZeroAddress, status |-> Manufactured,
     lastLocation |-> "", lastUpdateTimestamp |-> 0, exists |-> FALSE]

(* shelfLifePolicy[name], zero for a name never set *)
Threshold(name) == IF name \in DOMAIN shelfLifePolicy THEN shelfLifePolicy[name] ELSE 0

----------------------------------------------------------------------------
(* events *)
MedicineCreated(id, batchId, manufacturer) ==
    [event |-> "MedicineCreated", medicineId |-> id, batchId |-> batchId,
     manufacturer |-> manufacturer]
MedicineMoved(id, mover, location, status) ==
    [event |-> "MedicineMoved", medicineId |-> id, mover |-> mover,
     location |-> location, status |-> status]
MedicineRecalled(id, reason) ==
    [event |-> "MedicineRecalled", medicineId |-> id, reason |-> reason]
MedicineVerified(id, isValid) ==
    [event |-> "MedicineVerified", medicineId |-> id, isValid |-> isValid]
ShelfLifePolicyUpdated(name, months) ==
    [event |-> "ShelfLifePolicyUpdated", medicineName |-> name, months |-> months]

----------------------------------------------------------------------------
(* the outcome of a transaction *)
Call(op, sender, id, before, revert) ==
    [op |-> op, sender |-> sender, id |-> id,
     before |-> [status |-> before.status, currentOwner |-> before.currentOwner,
                 exists |-> before.exists],
     revert |-> revert]

(* Revert keeping a write made before the require that failed: the time   *)
(* of the last move of the record addressed                                *)
RevertKeepingWrite(op, sender, id, before, message) ==
    /\ tx' = Call(op, sender, id, before, message)
    /\ emitted' = <<>>
    /\ medicines' = [i \in DOMAIN medicines |->
                       IF i = id THEN [medicines[i] EXCEPT !.lastUpdateTimestamp = now]
                       ELSE medicines[i]]
    /\ UNCHANGED <<shelfLifePolicy, authorizedManufacturers, authorizedDistributors,
                   admin, now, page>>

(* a failed require: storage as before, nothing emitted *)
Revert(op, sender, id, before, message) ==
    /\ tx' = Call(op, sender, id, before, message)
    /\ emitted' = <<>>
    /\ UNCHANGED <<storage, now, page>>

(* the transaction went through, emitting events *)
Commit(op, sender, id, before, events) ==
    /\ tx' = Call(op, sender, id, before, "")
    /\ emitted' = events
    /\ UNCHANGED <<now, page>>

(* the error kind of the specification that a revert message stands for *)
Kind(message) ==
    CASE message = "" -> "ok"
      [] message \in {"Access Denied: Admin only", "Access Denied: Not a Manufacturer",
                      "Ghost Detected"} -> "NotAuthorized"
      [] message \in {"Medicine does not exist", "Medicine ID not found"} -> "NotFound"
      [] message = "Error: Medicine ID already exists" -> "AlreadyExists"
      [] message \in {"Zombie Detected", "Evil Twin Detected"} -> "TerminalState"
      [] OTHER -> "Other"

(* onlyAdmin letting every manufacturer through as well *)
onlyAdminOrManufacturer(sender) == sender = admin \/ sender \in authorizedManufacturers

(* onlyManufacturer letting every caller through *)
onlyManufacturerOrAnyone(sender) == TRUE

(* modifiers *)
onlyAdmin(sender) == sender = admin
onlyManufacturer(sender) == sender \in authorizedManufacturers

----------------------------------------------------------------------------
(* the constructor, called by Deployer *)
Init ==
    /\ admin = Deployer
    /\ authorizedManufacturers = {Deployer}
    /\ authorizedDistributors = {Deployer}
    /\ medicines = [id \in MedicineIds |-> EmptyMedicine]
    /\ shelfLifePolicy = [n \in Names |-> 0]
    /\ now = StartTime
    /\ tx = Call("constructor", Deployer, "", EmptyMedicine, "")
    /\ emitted = <<>>
    /\ riskScore = NoScore
    /\ riskLevel = NoLevel

(* authorizeUser taking the flag the wrong way round *)
authorizeUserSwapped(sender, user, isManufacturer) ==
    IF ~onlyAdmin(sender)
    THEN Revert("authorizeUser", sender, "", EmptyMedicine, "Access Denied: Admin only")
    ELSE /\ IF isManufacturer
            THEN /\ authorizedDistributors' = authorizedDistributors \cup {user}
                 /\ UNCHANGED authorizedManufacturers
            ELSE /\ authorizedManufacturers' = authorizedManufacturers \cup {user}
                 /\ UNCHANGED authorizedDistributors
         /\ UNCHANGED <<medicines, shelfLifePolicy, admin>>
         /\ Commit("authorizeUser", sender, "", EmptyMedicine, <<>>)

authorizeUser(sender, user, isManufacturer) ==
    IF ~onlyAdmin(sender)
    THEN Revert("authorizeUser", sender, "", EmptyMedicine, "Access Denied: Admin only")
    ELSE /\ IF isManufacturer
            THEN /\ authorizedManufacturers' = authorizedManufacturers \cup {user}
                 /\ UNCHANGED authorizedDistributors
            ELSE /\ authorizedDistributors' = authorizedDistributors \cup {user}
                 /\ UNCHANGED authorizedManufacturers
         /\ UNCHANGED <<medicines, shelfLifePolicy, admin>>
         /\ Commit("authorizeUser", sender, "", EmptyMedicine, <<>>)

(* Recall deleting the record it recalls *)
RecallAndDelete(m) == [m EXCEPT !.status = Recalled, !.exists = FALSE]

(* Recall sparing a record already Sold *)
RecallUnlessSold(m) == IF m.status = Sold THEN m ELSE [m EXCEPT !.status = Recalled]

(* the write of line 78 *)
Recall(m) == [m EXCEPT !.status = Recalled]

recallMedicine(sender, id, reason) ==
    LET m == medicines[id] IN
    IF ~onlyAdmin(sender)
    THEN Revert("recallMedicine", sender, id, m, "Access Denied: Admin only")
    ELSE IF ~m.exists
    THEN Revert("recallMedicine", sender, id, m, "Medicine does not exist")
    ELSE /\ medicines' = [medicines EXCEPT ![id] = Recall(m)]
         /\ UNCHANGED <<shelfLifePolicy, authorizedManufacturers,
                        authorizedDistributors, admin>>
         /\ Commit("recallMedicine", sender, id, m, <<MedicineRecalled(id, reason)>>)

(* setShelfLifePolicy storing the months as they come, unconverted *)
setShelfLifePolicyMonths(sender, name, months) ==
    IF ~onlyAdmin(sender)
    THEN Revert("setShelfLifePolicy", sender, "", EmptyMedicine, "Access Denied: Admin only")
    ELSE /\ shelfLifePolicy' = [shelfLifePolicy EXCEPT ![name] = months]
         /\ UNCHANGED <<medicines, authorizedManufacturers,
                        authorizedDistributors, admin>>
         /\ Commit("setShelfLifePolicy", sender, "", EmptyMedicine,
                   <<ShelfLifePolicyUpdated(name, months)>>)

setShelfLifePolicy(sender, name, months) ==
    IF ~onlyAdmin(sender)
    THEN Revert("setShelfLifePolicy", sender, "", EmptyMedicine, "Access Denied: Admin only")
    ELSE /\ shelfLifePolicy' = [shelfLifePolicy EXCEPT ![name] = months * ThirtyDays]
         /\ UNCHANGED <<medicines, authorizedManufacturers,
                        authorizedDistributors, admin>>
         /\ Commit("setShelfLifePolicy", sender, "", EmptyMedicine,
                   <<ShelfLifePolicyUpdated(name, months)>>)

(* ExpiryDue with a strict comparison *)
ExpiryDueStrict(m) == now + Threshold(m.name) > m.expiryDate

(* the test of line 99 *)
ExpiryDue(m) == now + Threshold(m.name) >= m.expiryDate

(* ExpiryEvents emitting nothing for a record already Recalled *)
ExpiryEventsOnce(id, m) ==
    IF m.status = Recalled THEN <<>>
    ELSE <<MedicineRecalled(id, "Recall: Approaching Expiry Date")>>

(* the event of line 101 *)
ExpiryEvents(id, m) == <<MedicineRecalled(id, "Recall: Approaching Expiry Date")>>

(* checkExpiryAndRecall recalling every record of the name that is due *)
checkExpiryAndRecallByName(sender, id) ==
    LET m == medicines[id] IN
    IF ~m.exists
    THEN Revert("checkExpiryAndRecall", sender, id, m, "Medicine does not exist")
    ELSE IF ExpiryDue(m)
    THEN /\ medicines' = [i \in DOMAIN medicines |->
                            IF medicines[i].exists /\ medicines[i].name = m.name
                            THEN [medicines[i] EXCEPT !.status = Recalled]
                            ELSE medicines[i]]
         /\ UNCHANGED <<shelfLifePolicy, authorizedManufacturers,
                        authorizedDistributors, admin>>
         /\ Commit("checkExpiryAndRecall", sender, id, m, ExpiryEvents(id, m))
    ELSE /\ UNCHANGED storage
         /\ Commit("checkExpiryAndRecall", sender, id, m, <<>>)

checkExpiryAndRecall(sender, id) ==
    LET m == medicines[id] IN
    IF ~m.exists
    THEN Revert("checkExpiryAndRecall", sender, id, m, "Medicine does not exist")
    ELSE IF ExpiryDue(m)
    THEN /\ medicines' = [medicines EXCEPT ![id].status = Recalled]
         /\ UNCHANGED <<shelfLifePolicy, authorizedManufacturers,
                        authorizedDistributors, admin>>
         /\ Commit("checkExpiryAndRecall", sender, id, m, ExpiryEvents(id, m))
    ELSE /\ UNCHANGED storage
         /\ Commit("checkExpiryAndRecall", sender, id, m, <<>>)

(* IdFree that never finds the id taken *)
IdFreeAlways(m) == TRUE

(* the require of line 114 *)
IdFree(m) == ~m.exists

(* NewMedicine leaving the last location and the time of the last move unset *)
NewMedicineNoTracking(sender, id, a) ==
    [medicineId |-> id, batchId |-> a.batchId, name |-> a.name,
     expectedWeight |-> a.weight, manufacturerLoc |-> a.location,
     manufactureDate |-> now, expiryDate |-> a.expiryDate,
     currentOwner |-> sender, status |-> Manufactured,
     lastLocation |-> "", lastUpdateTimestamp |-> 0, exists |-> TRUE]

(* the record lines 116-128 write *)
NewMedicine(sender, id, a) ==
    [medicineId |-> id, batchId |-> a.batchId, name |-> a.name,
     expectedWeight |-> a.weight, manufacturerLoc |-> a.location,
     manufactureDate |-> now, expiryDate |-> a.expiryDate,
     currentOwner |-> sender, status |-> Manufactured,
     lastLocation |-> a.location, lastUpdateTimestamp |-> now, exists |-> TRUE]

registerMedicine(sender, id, a) ==
    LET m == medicines[id] IN
    IF ~onlyManufacturer(sender)
    THEN Revert("registerMedicine", sender, id, m, "Access Denied: Not a Manufacturer")
    ELSE IF ~IdFree(m)
    THEN Revert("registerMedicine", sender, id, m, "Error: Medicine ID already exists")
    ELSE /\ medicines' = [medicines EXCEPT ![id] = NewMedicine(sender, id, a)]
         /\ UNCHANGED <<shelfLifePolicy, authorizedManufacturers,
                        authorizedDistributors, admin>>
         /\ Commit("registerMedicine", sender, id, m,
                   <<MedicineCreated(id, a.batchId, sender)>>)

(* MayCheckpoint letting every manufacturer through as well *)
MayCheckpointOrManufacturer(sender, m) ==
    \/ sender = m.currentOwner
    \/ sender \in authorizedDistributors
    \/ sender \in authorizedManufacturers

(* the require of line 142 *)
MayCheckpoint(sender, m) ==
    sender = m.currentOwner \/ sender \in authorizedDistributors

(* Checkpointed moving the place of manufacture along with the record *)
CheckpointedMovingOrigin(sender, m, newLocation, newStatus) ==
    [m EXCEPT !.status = newStatus, !.lastLocation = newLocation,
              !.manufacturerLoc = newLocation,
              !.lastUpdateTimestamp = now, !.currentOwner = sender]

(* Checkpointed leaving the custody where it was *)
CheckpointedKeepingOwner(sender, m, newLocation, newStatus) ==
    [m EXCEPT !.status = newStatus, !.lastLocation = newLocation,
              !.lastUpdateTimestamp = now]

(* Checkpointed leaving the time of the last move where it was *)
CheckpointedKeepingTime(sender, m, newLocation, newStatus) ==
    [m EXCEPT !.status = newStatus, !.lastLocation = newLocation,
              !.currentOwner = sender]

(* the record lines 149-152 write *)
Checkpointed(sender, m, newLocation, newStatus) ==
    [m EXCEPT !.status = newStatus, !.lastLocation = newLocation,
              !.lastUpdateTimestamp = now, !.currentOwner = sender]

(* updateCheckpoint testing the status before the caller *)
updateCheckpointStatusFirst(sender, id, newLocation, newStatus) ==
    LET m == medicines[id] IN
    IF m.status = Recalled
    THEN Revert("updateCheckpoint", sender, id, m, "Zombie Detected")
    ELSE IF m.status = Sold
    THEN Revert("updateCheckpoint", sender, id, m, "Evil Twin Detected")
    ELSE IF ~MayCheckpoint(sender, m)
    THEN Revert("updateCheckpoint", sender, id, m, "Ghost Detected")
    ELSE /\ medicines' = [medicines EXCEPT
                            ![id] = Checkpointed(sender, m, newLocation, newStatus)]
         /\ UNCHANGED <<shelfLifePolicy, authorizedManufacturers,
                        authorizedDistributors, admin>>
         /\ Commit("updateCheckpoint", sender, id, m,
                   <<MedicineMoved(id, sender, newLocation, newStatus)>>)

updateCheckpoint(sender, id, newLocation, newStatus) ==
    LET m == medicines[id] IN
    IF ~MayCheckpoint(sender, m)
    THEN Revert("updateCheckpoint", sender, id, m, "Ghost Detected")
    ELSE IF m.status = Recalled
    THEN Revert("updateCheckpoint", sender, id, m, "Zombie Detected")
    ELSE IF m.status = Sold
    THEN Revert("updateCheckpoint", sender, id, m, "Evil Twin Detected")
    ELSE /\ medicines' = [medicines EXCEPT
                            ![id] = Checkpointed(sender, m, newLocation, newStatus)]
         /\ UNCHANGED <<shelfLifePolicy, authorizedManufacturers,
                        authorizedDistributors, admin>>
         /\ Commit("updateCheckpoint", sender, id, m,
                   <<MedicineMoved(id, sender, newLocation, newStatus)>>)

(* BatchLinked taking a scanned prefix of the batch id for the batch id *)
BatchLinkedByPrefix(m, scannedBatchId) ==
    /\ Len(scannedBatchId) <= Len(m.batchId)
    /\ keccak256(SubSeq(m.batchId, 1, Len(scannedBatchId))) = keccak256(scannedBatchId)

(* the comparison of line 166 *)
BatchLinked(m, scannedBatchId) == keccak256(m.batchId) = keccak256(scannedBatchId)

(* verifyBatchLink under the terminal guard of updateCheckpoint *)
verifyBatchLinkGuarded(sender, id, scannedBatchId) ==
    LET m == medicines[id] IN
    IF ~m.exists
    THEN Revert("verifyBatchLink", sender, id, m, "Medicine ID not found")
    ELSE IF m.status = Recalled
    THEN Revert("verifyBatchLink", sender, id, m, "Zombie Detected")
    ELSE IF m.status = Sold
    THEN Revert("verifyBatchLink", sender, id, m, "Evil Twin Detected")
    ELSE /\ IF BatchLinked(m, scannedBatchId)
            THEN /\ medicines' = [medicines EXCEPT ![id].status = Verified]
                 /\ Commit("verifyBatchLink", sender, id, m,
                           <<MedicineVerified(id, TRUE)>>)
            ELSE /\ medicines' = [medicines EXCEPT ![id].status = Recalled]
                 /\ Commit("verifyBatchLink", sender, id, m,
                           <<MedicineVerified(id, FALSE),
                             MedicineRecalled(id, "Batch Link Mismatch: Potential Counterfeit")>>)
         /\ UNCHANGED <<shelfLifePolicy, authorizedManufacturers,
                        authorizedDistributors, admin>>

(* verifyBatchLink emitting, on a mismatch, the recall before the verdict *)
verifyBatchLinkRecallFirst(sender, id, scannedBatchId) ==
    LET m == medicines[id] IN
    IF ~m.exists
    THEN Revert("verifyBatchLink", sender, id, m, "Medicine ID not found")
    ELSE /\ IF BatchLinked(m, scannedBatchId)
            THEN /\ medicines' = [medicines EXCEPT ![id].status = Verified]
                 /\ Commit("verifyBatchLink", sender, id, m,
                           <<MedicineVerified(id, TRUE)>>)
            ELSE /\ medicines' = [medicines EXCEPT ![id].status = Recalled]
                 /\ Commit("verifyBatchLink", sender, id, m,
                           <<MedicineRecalled(id, "Batch Link Mismatch: Potential Counterfeit"),
                             MedicineVerified(id, FALSE)>>)
         /\ UNCHANGED <<shelfLifePolicy, authorizedManufacturers,
                        authorizedDistributors, admin>>

verifyBatchLink(sender, id, scannedBatchId) ==
    LET m == medicines[id] IN
    IF ~m.exists
    THEN Revert("verifyBatchLink", sender, id, m, "Medicine ID not found")
    ELSE /\ IF BatchLinked(m, scannedBatchId)
            THEN /\ medicines' = [medicines EXCEPT ![id].status = Verified]
                 /\ Commit("verifyBatchLink", sender, id, m,
                           <<MedicineVerified(id, TRUE)>>)
            ELSE /\ medicines' = [medicines EXCEPT ![id].status = Recalled]
                 /\ Commit("verifyBatchLink", sender, id, m,
                           <<MedicineVerified(id, FALSE),
                             MedicineRecalled(id, "Batch Link Mismatch: Potential Counterfeit")>>)
         /\ UNCHANGED <<shelfLifePolicy, authorizedManufacturers,
                        authorizedDistributors, admin>>

(* a later block: block.timestamp never decreases *)
Tick ==
    /\ now + TickStep <= MaxTime
    /\ now' = now + TickStep
    /\ tx' = Call("block", ZeroAddress, "", EmptyMedicine, "")
    /\ emitted' = <<>>
    /\ UNCHANGED <<storage, page>>

Next ==
    \/ \E s \in Addresses, u \in Addresses, b \in BOOLEAN : authorizeUser(s, u, b)
    \/ \E s \in Addresses, id \in TargetIds, r \in Reasons : recallMedicine(s, id, r)
    \/ \E s \in Addresses, n \in Names, k \in 0..MaxMonths : setShelfLifePolicy(s, n, k)
    \/ \E s \in Addresses, id \in TargetIds : checkExpiryAndRecall(s, id)
    \/ \E s \in Addresses, id \in TargetIds, a \in RegisterArgs : registerMedicine(s, id, a)
    \/ \E s \in Addresses, id \in TargetIds, l \in CheckpointLocations, st \in Status :
          updateCheckpoint(s, id, l, st)
    \/ \E s \in Addresses, id \in TargetIds, b \in BatchIds : verifyBatchLink(s, id, b)
    \/ Tick

Spec == Init /\ [][Next]_vars

(* the ledger with transactions addressing every id of the store, their    *)
(* other inputs drawn from smaller sets                                    *)
NextIds ==
    \/ \E u \in Addresses : authorizeUser(Deployer, u, FALSE)
    \/ \E id \in MedicineIds, r \in Reasons : recallMedicine(Deployer, id, r)
    \/ \E k \in 0..MaxMonths : setShelfLifePolicy(Deployer, "Paracetamol", k)
    \/ \E id \in MedicineIds : checkExpiryAndRecall("alice", id)
    \/ \E id \in MedicineIds, a \in {x \in RegisterArgs : x.name = "Paracetamol"} :
          registerMedicine(Deployer, id, a)
    \/ \E s \in Addresses, id \in MedicineIds, l \in CheckpointLocations :
          updateCheckpoint(s, id, l, Sold)
    \/ \E id \in MedicineIds, b \in {B1, B10} : verifyBatchLink("alice", id, b)
    \/ Tick

SpecIds == Init /\ [][NextIds]_vars

(* the front end alone, building one row of the history after another *)
NextPage == \E score \in Scores : ShowRisk(score)

SpecPage == Init /\ [][NextPage]_vars

----------------------------------------------------------------------------
(* Claims.  An action formula [][A]_vars reads the state before the        *)
(* transaction unprimed and the state after it primed.                     *)

Accepted == tx.revert = ""

(* the step is a transaction calling op *)
Called(op) == tx'.op = op

(* C1: updateCheckpoint is accepted only when the record's status is       *)
(* neither Recalled nor Sold and the caller is the record's currentOwner   *)
(* or a distributor; in every other case the call fails and every field of *)
(* the record is as before the call.                                       *)
C1_CheckpointGuard ==
    [][Called("updateCheckpoint") =>
       \A s \in Addresses, id \in TargetIds, l \in CheckpointLocations, st \in Status :
         updateCheckpoint(s, id, l, st) =>
           LET m == medicines[id]
               allowed == /\ m.status \notin {Recalled, Sold}
                          /\ (s = m.currentOwner \/ s \in authorizedDistributors)
           IN  /\ Accepted' => allowed
               /\ ~allowed => (~Accepted' /\ medicines'[id] = m)]_vars

(* an updateCheckpoint by the owner of a Sold record has been refused *)
C1_Witness ==
    /\ tx.op = "updateCheckpoint"
    /\ ~Accepted
    /\ tx.before.exists
    /\ tx.before.status = Sold
    /\ tx.sender = medicines[tx.id].currentOwner
    /\ medicines[tx.id].status = Sold

(* C2: updateCheckpoint on an id with no record (exists = false) fails     *)
(* with NotFound for every caller, a distributor included, and leaves the  *)
(* stored entry for the id and the audit log unchanged.                    *)
C2_CheckpointNotFound ==
    [][Called("updateCheckpoint") =>
       \A s \in Addresses, id \in TargetIds, l \in CheckpointLocations, st \in Status :
         (updateCheckpoint(s, id, l, st) /\ ~medicines[id].exists) =>
           /\ Kind(tx'.revert) = "NotFound"
           /\ medicines'[id] = medicines[id]
           /\ emitted' = <<>>]_vars

(* C3, as claimed: after every accepted recallMedicine, verifyBatchLink,   *)
(* registerMedicine, updateCheckpoint, or checkExpiryAndRecall that        *)
(* recalls, on an existing record, currentOwner is the caller.             *)
C3_OwnerIsLastWriter ==
    [][(/\ Accepted'
        /\ tx'.op \in {"registerMedicine", "updateCheckpoint", "recallMedicine",
                       "verifyBatchLink", "checkExpiryAndRecall"}
        /\ emitted' # <<>>
        /\ medicines'[tx'.id].exists)
       => medicines'[tx'.id].currentOwner = tx'.sender]_vars

(* C3, amended: for every existing record currentOwner is the caller of    *)
(* the most recent accepted registerMedicine or updateCheckpoint on it:    *)
(* such a call leaves currentOwner = caller, and every other step leaves   *)
(* the currentOwner of an existing record as it was.                       *)
C3_OwnerIsLastCustodian ==
    [][\A id \in MedicineIds :
         IF Accepted' /\ tx'.id = id /\ tx'.op \in {"registerMedicine", "updateCheckpoint"}
         THEN medicines'[id].currentOwner = tx'.sender
         ELSE medicines[id].exists =>
                medicines'[id].currentOwner = medicines[id].currentOwner]_vars

(* admin has recalled a record that alice holds: it is still hers *)
C3_Witness ==
    /\ tx.op = "recallMedicine"
    /\ Accepted
    /\ medicines[tx.id].exists
    /\ medicines[tx.id].currentOwner # tx.sender
    /\ medicines[tx.id].currentOwner = tx.before.currentOwner

(* C4: an accepted updateCheckpoint(caller, id, newLocation, newStatus)    *)
(* sets status = newStatus, lastLocation = newLocation, lastUpdatedAt =    *)
(* now and currentOwner = caller, changes no other field, and emits        *)
(* exactly one Moved event; whether it is accepted does not depend on      *)
(* newStatus, which may be any of the seven values.                        *)
C4_CheckpointEffect ==
    [][Called("updateCheckpoint") =>
       \A s \in Addresses, id \in TargetIds, l \in CheckpointLocations, st \in Status :
         updateCheckpoint(s, id, l, st) =>
           LET m == medicines[id]
               allowed == /\ m.status \notin {Recalled, Sold}
                          /\ (s = m.currentOwner \/ s \in authorizedDistributors)
           IN  /\ allowed => Accepted'
               /\ Accepted' =>
                    /\ medicines'[id].status = st
                    /\ medicines'[id].lastLocation = l
                    /\ medicines'[id].lastUpdateTimestamp = now
                    /\ medicines'[id].currentOwner = s
                    /\ \A f \in {"medicineId", "batchId", "name", "expectedWeight",
                                 "manufacturerLoc", "manufactureDate", "expiryDate",
                                 "exists"} : medicines'[id][f] = m[f]
                    /\ emitted' = <<MedicineMoved(id, s, l, st)>>]_vars

(* a distributor who did not hold a Verified record has checkpointed it    *)
(* back to Manufactured, at a time later than its last move                *)
C4_Witness ==
    /\ tx.op = "updateCheckpoint"
    /\ Accepted
    /\ tx.before.exists
    /\ tx.before.currentOwner # tx.sender
    /\ tx.before.status = Verified
    /\ medicines[tx.id].status = Manufactured
    /\ medicines[tx.id].currentOwner = tx.sender
    /\ medicines[tx.id].lastUpdateTimestamp > medicines[tx.id].manufactureDate
    /\ Len(emitted) = 1

(* C5: registerMedicine on an id whose record exists fails with            *)
(* AlreadyExists, whoever the manufacturer calling is and whatever the     *)
(* arguments are, and every field of the record is as before the call.     *)
C5_RegisterTwice ==
    [][Called("registerMedicine") =>
       \A s \in Addresses, id \in TargetIds, a \in RegisterArgs :
         (/\ registerMedicine(s, id, a)
          /\ medicines[id].exists
          /\ s \in authorizedManufacturers) =>
           /\ Kind(tx'.revert) = "AlreadyExists"
           /\ medicines' = medicines
           /\ emitted' = <<>>]_vars

(* a manufacturer who does not hold the record has tried to register its   *)
(* id again and was refused                                                *)
C5_Witness ==
    /\ tx.op = "registerMedicine"
    /\ tx.revert = "Error: Medicine ID already exists"
    /\ tx.before.exists
    /\ tx.sender \in authorizedManufacturers
    /\ medicines[tx.id].currentOwner # tx.sender
    /\ medicines[tx.id].status # Manufactured

(* C6: registerMedicine succeeds only when the caller is a manufacturer    *)
(* and the id has no record; on success the record has exists = true,      *)
(* status = Manufactured, currentOwner = caller, createdAt = lastUpdatedAt *)
(* = now, originLocation = lastLocation = location and the given batch     *)
(* id, name, weight and expiry, and exactly one Created event is emitted;  *)
(* a caller who is no manufacturer gets NotAuthorized and nothing is       *)
(* created.                                                                *)
C6_RegisterEffect ==
    [][Called("registerMedicine") =>
       \A s \in Addresses, id \in TargetIds, a \in RegisterArgs :
         registerMedicine(s, id, a) =>
           /\ Accepted' <=> (s \in authorizedManufacturers /\ ~medicines[id].exists)
           /\ Accepted' =>
                /\ medicines'[id] =
                     [medicineId |-> id, batchId |-> a.batchId, name |-> a.name,
                      expectedWeight |-> a.weight, manufacturerLoc |-> a.location,
                      manufactureDate |-> now, expiryDate |-> a.expiryDate,
                      currentOwner |-> s, status |-> Manufactured,
                      lastLocation |-> a.location, lastUpdateTimestamp |-> now,
                      exists |-> TRUE]
                /\ emitted' = <<MedicineCreated(id, a.batchId, s)>>
           /\ s \notin authorizedManufacturers =>
                /\ Kind(tx'.revert) = "NotAuthorized"
                /\ medicines' = medicines
                /\ emitted' = <<>>]_vars

(* a manufacturer other than admin has registered, in a later block, an id *)
(* whose slot a checkpoint had written before any record existed           *)
C6_Witness ==
    /\ tx.op = "registerMedicine"
    /\ Accepted
    /\ tx.sender # admin
    /\ tx.before.status # Manufactured
    /\ now > StartTime
    /\ medicines[tx.id].exists
    /\ medicines[tx.id].status = Manufactured
    /\ medicines[tx.id].manufactureDate = now
    /\ Len(emitted) = 1

(* C7: recallMedicine by admin on an existing record succeeds whatever the *)
(* record's status is, leaves status = Recalled and emits one Recalled     *)
(* event carrying the given reason; by any other caller it fails with      *)
(* NotAuthorized, and by admin on an id with no record it fails with       *)
(* NotFound, both without changing any state.                              *)
C7_RecallAlways ==
    [][Called("recallMedicine") =>
       \A s \in Addresses, id \in TargetIds, r \in Reasons :
         recallMedicine(s, id, r) =>
           /\ (s = admin /\ medicines[id].exists) =>
                /\ Accepted'
                /\ medicines'[id].status = Recalled
                /\ emitted' = <<MedicineRecalled(id, r)>>
           /\ s # admin =>
                /\ Kind(tx'.revert) = "NotAuthorized"
                /\ UNCHANGED <<storage, now>>
                /\ emitted' = <<>>
           /\ (s = admin /\ ~medicines[id].exists) =>
                /\ Kind(tx'.revert) = "NotFound"
                /\ UNCHANGED <<storage, now>>
                /\ emitted' = <<>>]_vars

(* admin has recalled a record that was Sold *)
C7_Witness ==
    /\ tx.op = "recallMedicine"
    /\ Accepted
    /\ tx.before.exists
    /\ tx.before.status = Sold
    /\ medicines[tx.id].status = Recalled
    /\ emitted = <<MedicineRecalled(tx.id, "Contamination")>>

(* C8: on an existing record the outcome of verifyBatchLink depends only   *)
(* on whether the record's batchId equals scannedBatchId exactly, not on   *)
(* the caller, the status or the owner: on equality status becomes         *)
(* Verified and exactly one Verified(true) is emitted; on inequality       *)
(* status becomes Recalled and exactly Verified(false), then               *)
(* Recalled("Batch Link Mismatch: Potential Counterfeit") are emitted.  On *)
(* an id with no record it fails with NotFound.                            *)
C8_VerifyBatchLink ==
    [][Called("verifyBatchLink") =>
       \A s \in Addresses, id \in TargetIds, b \in BatchIds :
         verifyBatchLink(s, id, b) =>
           IF medicines[id].exists
           THEN /\ Accepted'
                /\ IF medicines[id].batchId = b
                   THEN /\ medicines'[id].status = Verified
                        /\ emitted' = <<MedicineVerified(id, TRUE)>>
                   ELSE /\ medicines'[id].status = Recalled
                        /\ emitted' =
                             <<MedicineVerified(id, FALSE),
                               MedicineRecalled(id, "Batch Link Mismatch: Potential Counterfeit")>>
           ELSE Kind(tx'.revert) = "NotFound"]_vars

(* a caller who is neither owner, admin nor distributor has scanned, on a  *)
(* Sold record of batch "B-10", the batch id "B-1": a mismatch             *)
C8_Witness ==
    /\ tx.op = "verifyBatchLink"
    /\ Accepted
    /\ tx.sender \notin authorizedDistributors \cup {admin, tx.before.currentOwner}
    /\ tx.before.status = Sold
    /\ medicines[tx.id].batchId = B10
    /\ medicines[tx.id].status = Recalled
    /\ Len(emitted) = 2
    /\ emitted[1] = MedicineVerified(tx.id, FALSE)

(* C9: checkExpiryAndRecall on an existing record is accepted from any     *)
(* caller and sets status to Recalled if and only if now + threshold(name) *)
(* >= expiresAt, the threshold being the stored policy of the record's     *)
(* name, zero when none was set; when the condition is false the record    *)
(* and the audit log are unchanged.  On an id with no record it fails with *)
(* NotFound.                                                               *)
C9_ExpiryRecall ==
    [][Called("checkExpiryAndRecall") =>
       \A s \in Addresses, id \in TargetIds :
         checkExpiryAndRecall(s, id) =>
           LET m == medicines[id] IN
           IF m.exists
           THEN /\ Accepted'
                /\ IF now + shelfLifePolicy[m.name] >= m.expiryDate
                   THEN medicines'[id] = [m EXCEPT !.status = Recalled]
                   ELSE medicines' = medicines /\ emitted' = <<>>
           ELSE Kind(tx'.revert) = "NotFound"]_vars

(* a caller who is neither admin, owner nor distributor has had a record   *)
(* recalled at the very time now + threshold = expiresAt, under a policy   *)
(* that was set                                                            *)
C9_Witness ==
    /\ tx.op = "checkExpiryAndRecall"
    /\ Accepted
    /\ tx.sender \notin authorizedDistributors \cup {admin, tx.before.currentOwner}
    /\ tx.before.status # Recalled
    /\ medicines[tx.id].status = Recalled
    /\ shelfLifePolicy[medicines[tx.id].name] > 0
    /\ now + shelfLifePolicy[medicines[tx.id].name] = medicines[tx.id].expiryDate

(* C10, as claimed: every checkExpiryAndRecall made while the expiry       *)
(* condition holds emits one Recalled event whose reason is exactly        *)
(* "Approaching Expiry Date".                                              *)
C10_ExpiryReasonAsClaimed ==
    [][Called("checkExpiryAndRecall") =>
       \A s \in Addresses, id \in TargetIds :
         (/\ checkExpiryAndRecall(s, id)
          /\ medicines[id].exists
          /\ now + shelfLifePolicy[medicines[id].name] >= medicines[id].expiryDate) =>
           emitted' = <<MedicineRecalled(id, "Approaching Expiry Date")>>]_vars

(* C10, amended: every checkExpiryAndRecall made while the expiry          *)
(* condition holds emits one Recalled event whose reason is "Recall:       *)
(* Approaching Expiry Date"; a repeated call, on a record already          *)
(* Recalled, leaves the record as it is and emits the event again.         *)
C10_ExpiryEventEveryCall ==
    [][Called("checkExpiryAndRecall") =>
       \A s \in Addresses, id \in TargetIds :
         (/\ checkExpiryAndRecall(s, id)
          /\ medicines[id].exists
          /\ now + shelfLifePolicy[medicines[id].name] >= medicines[id].expiryDate) =>
           /\ emitted' = <<MedicineRecalled(id, "Recall: Approaching Expiry Date")>>
           /\ medicines'[id].status = Recalled
           /\ medicines[id].status = Recalled => medicines' = medicines]_vars

(* checkExpiryAndRecall has been called on a record that was Recalled      *)
(* already, and has emitted the event again                                *)
C10_Witness ==
    /\ tx.op = "checkExpiryAndRecall"
    /\ Accepted
    /\ tx.before.status = Recalled
    /\ medicines[tx.id].status = Recalled
    /\ emitted = <<MedicineRecalled(tx.id, "Recall: Approaching Expiry Date")>>

(* the four error kinds of the specification *)
ErrorKinds == {"NotAuthorized", "NotFound", "AlreadyExists", "TerminalState"}

C12_EventsAppended ==
    [][/\ ~Accepted' => emitted' = <<>>
       /\ (Called("registerMedicine") /\ Accepted') =>
            \A s \in Addresses, id \in TargetIds, a \in RegisterArgs :
              registerMedicine(s, id, a) =>
                emitted' = <<MedicineCreated(id, a.batchId, s)>>
       /\ (Called("updateCheckpoint") /\ Accepted') =>
            \A s \in Addresses, id \in TargetIds, l \in CheckpointLocations, st \in Status :
              updateCheckpoint(s, id, l, st) =>
                emitted' = <<MedicineMoved(id, s, l, st)>>
       /\ (Called("recallMedicine") /\ Accepted') =>
            \A s \in Addresses, id \in TargetIds, r \in Reasons :
              recallMedicine(s, id, r) =>
                emitted' = <<MedicineRecalled(id, r)>>
       /\ (Called("verifyBatchLink") /\ Accepted') =>
            \A s \in Addresses, id \in TargetIds, b \in BatchIds :
              verifyBatchLink(s, id, b) =>
                emitted' =
                  IF medicines[id].batchId = b
                  THEN <<MedicineVerified(id, TRUE)>>
                  ELSE <<MedicineVerified(id, FALSE),
                         MedicineRecalled(id, "Batch Link Mismatch: Potential Counterfeit")>>
       /\ (Called("setShelfLifePolicy") /\ Accepted') =>
            \A s \in Addresses, n \in Names, k \in 0..MaxMonths :
              setShelfLifePolicy(s, n, k) =>
                emitted' = <<ShelfLifePolicyUpdated(n, k)>>]_vars

(* a verifyBatchLink that found a mismatch has appended its two events,    *)
(* the verdict first                                                       *)
C12_Witness ==
    /\ tx.op = "verifyBatchLink"
    /\ Accepted
    /\ emitted = <<MedicineVerified(tx.id, FALSE),
                   MedicineRecalled(tx.id, "Batch Link Mismatch: Potential Counterfeit")>>

(* C13: every accepted operation that changes stored state (a record, a    *)
(* policy entry or an allowlist) appends at least one audit-log entry; no  *)
(* accepted call, authorize included, changes state and leaves the audit   *)
(* log as it was.                                                          *)
C13_EveryChangeLogged ==
    [][(Accepted' /\ storage' # storage) => emitted' # <<>>]_vars

(* C14: authorize succeeds only when the caller is admin; it then adds the *)
(* target to manufacturers when asManufacturer is true and to distributors *)
(* otherwise, leaving the other set unchanged; any other caller gets       *)
(* NotAuthorized and neither set changes; authorizing a member leaves both *)
(* sets unchanged.                                                         *)
C14_Authorize ==
    [][Called("authorizeUser") =>
       \A s \in Addresses, u \in Addresses, b \in BOOLEAN :
         authorizeUser(s, u, b) =>
           /\ Accepted' <=> s = admin
           /\ s = admin =>
                /\ b => /\ authorizedManufacturers' = authorizedManufacturers \cup {u}
                        /\ authorizedDistributors' = authorizedDistributors
                /\ ~b => /\ authorizedDistributors' = authorizedDistributors \cup {u}
                         /\ authorizedManufacturers' = authorizedManufacturers
                /\ (b /\ u \in authorizedManufacturers) =>
                     UNCHANGED <<authorizedManufacturers, authorizedDistributors>>
                /\ (~b /\ u \in authorizedDistributors) =>
                     UNCHANGED <<authorizedManufacturers, authorizedDistributors>>
           /\ s # admin =>
                /\ Kind(tx'.revert) = "NotAuthorized"
                /\ UNCHANGED <<authorizedManufacturers, authorizedDistributors>>]_vars

(* alice is a distributor and no manufacturer, by an authorize of admin's  *)
C14_Witness ==
    /\ tx.op = "authorizeUser"
    /\ Accepted
    /\ tx.sender = admin
    /\ "alice" \in authorizedDistributors
    /\ "alice" \notin authorizedManufacturers

(* a member the step has added to an allowlist was the target of an        *)
(* authorize that admin made and that was accepted                         *)
AddedByAuthorize ==
    /\ \A u \in authorizedManufacturers' \ authorizedManufacturers :
         authorizeUser(admin, u, TRUE) /\ Accepted'
    /\ \A u \in authorizedDistributors' \ authorizedDistributors :
         authorizeUser(admin, u, FALSE) /\ Accepted'

(* admin stays who it is and no identity leaves an allowlist *)
RegistryGrows ==
    /\ admin' = admin
    /\ authorizedManufacturers \subseteq authorizedManufacturers'
    /\ authorizedDistributors \subseteq authorizedDistributors'

(* C15, as claimed: the admin is the identity fixed at construction, no    *)
(* identity ever leaves manufacturers or distributors, and every member of *)
(* either was inserted by an accepted authorize call made by admin: the    *)
(* allowlists are empty until such a call.                                 *)
C15_MembersOnlyByAuthorize ==
    /\ admin = Deployer
    /\ authorizedManufacturers = {}
    /\ authorizedDistributors = {}
    /\ [][RegistryGrows /\ AddedByAuthorize]_vars

(* C15, amended: the admin is the identity fixed at construction, no       *)
(* identity ever leaves manufacturers or distributors, and every member of *)
(* either is the admin, whom the constructor inserts in both, or was       *)
(* inserted by an accepted authorize call made by admin.                   *)
C15_MembersByConstructorOrAuthorize ==
    /\ admin = Deployer
    /\ authorizedManufacturers = {Deployer}
    /\ authorizedDistributors = {Deployer}
    /\ [][RegistryGrows /\ AddedByAuthorize]_vars

(* alice has become a member of both allowlists, admin being who deployed  *)
C15_Witness ==
    /\ tx.op = "authorizeUser"
    /\ Accepted
    /\ admin = Deployer
    /\ authorizedManufacturers = {"admin", "alice"}
    /\ authorizedDistributors = {"admin", "alice"}

(* C16: a record that exists still exists after any step, whoever takes    *)
(* it: no operation deletes a record or resets exists.                     *)
C16_ExistsForever ==
    [][\A id \in MedicineIds : medicines[id].exists => medicines'[id].exists]_vars

(* a record once Sold, then recalled by the expiry check, is still there   *)
C16_Witness ==
    /\ tx.op = "checkExpiryAndRecall"
    /\ Accepted
    /\ tx.before.exists
    /\ tx.before.status = Sold
    /\ medicines[tx.id].exists
    /\ medicines[tx.id].status = Recalled

(* C17: the clock never decreasing, the time of the last update of a       *)
(* record never decreases, whatever the step.                              *)
C17_LastUpdateMonotone ==
    [][now' >= now =>
         \A id \in MedicineIds :
           medicines'[id].lastUpdateTimestamp >= medicines[id].lastUpdateTimestamp]_vars

(* a record registered in one block and moved in a later one *)
C17_Witness ==
    /\ tx.op = "updateCheckpoint"
    /\ Accepted
    /\ tx.before.exists
    /\ tx.before.status = Manufactured
    /\ now > StartTime
    /\ medicines[tx.id].manufactureDate = StartTime
    /\ medicines[tx.id].lastUpdateTimestamp = now

(* C18: setShelfLifePolicy is accepted from admin only; accepted, it       *)
(* stores months x 2,592,000 seconds for the name, whatever was stored     *)
(* before, leaves the other names as they were and emits one               *)
(* ShelfLifePolicyUpdated; no other operation writes a policy, and a name  *)
(* never set reads zero.                                                   *)
C18_ShelfLifePolicy ==
    /\ \A n \in Names : Threshold(n) = 0
    /\ [][IF Called("setShelfLifePolicy")
          THEN \A s \in Addresses, n \in Names, k \in 0..MaxMonths :
                 setShelfLifePolicy(s, n, k) =>
                   IF s = admin
                   THEN /\ Accepted'
                        /\ Threshold(n)' = k * 2592000
                        /\ \A o \in Names \ {n} : Threshold(o)' = Threshold(o)
                        /\ emitted' = <<ShelfLifePolicyUpdated(n, k)>>
                        /\ UNCHANGED <<medicines, authorizedManufacturers,
                                       authorizedDistributors, admin>>
                   ELSE /\ Kind(tx'.revert) = "NotAuthorized"
                        /\ emitted' = <<>>
                        /\ UNCHANGED storage
          ELSE \A n \in Names : Threshold(n)' = Threshold(n)]_vars

(* one name set to a month while the other keeps the month it had *)
C18_Witness ==
    /\ tx.op = "setShelfLifePolicy"
    /\ Accepted
    /\ shelfLifePolicy["Paracetamol"] = 2592000
    /\ shelfLifePolicy["Insulin"] = 2592000
    /\ emitted = <<ShelfLifePolicyUpdated("Insulin", 1)>>

(* C19: a row of the history shows LOW for a score of at most 0.35,        *)
(* MEDIUM for a score above 0.35 and at most 0.65, HIGH for a score above  *)
(* 0.65, the boundaries 0.35 and 0.65 being of the lower band, and the     *)
(* level shown is exactly one of the three bands. Scores in thousandths.   *)
C19_RiskBands ==
    riskLevel # NoLevel =>
      /\ (~riskScore.isNaN /\ riskScore.value <= 350) =>
           riskLevel.label = "LOW RISK - SAFE TO PROCEED"
      /\ (~riskScore.isNaN /\ 350 < riskScore.value /\ riskScore.value <= 650) =>
           riskLevel.label = "MEDIUM RISK - INSPECT BATCH"
      /\ (~riskScore.isNaN /\ riskScore.value > 650) =>
           riskLevel.label = "HIGH RISK - FLAG FOR REVIEW"
      /\ Cardinality({b \in DOMAIN RISK_LEVELS : RISK_LEVELS[b] = riskLevel}) = 1

(* the boundary 0.65 shown in the lower of its two bands *)
C19_Witness ==
    /\ riskScore = Number(650)
    /\ riskLevel = RISK_LEVELS.MEDIUM

(* C20: the terminal guard is on updateCheckpoint only. On a record that   *)
(* is Recalled or Sold, verifyBatchLink by any caller is accepted and, the *)
(* batch matching, leaves it Verified, and checkExpiryAndRecall is         *)
(* accepted; on a Verified record updateCheckpoint by the owner or a       *)
(* distributor is accepted; no other operation fails on a terminal state.  *)
C20_TerminalNotAbsorbing ==
    [][/\ Called("verifyBatchLink") =>
            \A s \in Addresses, id \in TargetIds, b \in BatchIds :
              (/\ medicines[id].exists
               /\ medicines[id].status \in {Recalled, Sold}
               /\ verifyBatchLink(s, id, b)) =>
                 /\ Accepted'
                 /\ BatchLinked(medicines[id], b) => medicines'[id].status = Verified
       /\ Called("checkExpiryAndRecall") =>
            \A s \in Addresses, id \in TargetIds :
              (/\ medicines[id].exists
               /\ medicines[id].status \in {Recalled, Sold}
               /\ checkExpiryAndRecall(s, id)) => Accepted'
       /\ Called("updateCheckpoint") =>
            \A s \in Addresses, id \in TargetIds, l \in CheckpointLocations, st \in Status :
              (/\ medicines[id].exists
               /\ medicines[id].status = Verified
               /\ (s = medicines[id].currentOwner \/ s \in authorizedDistributors)
               /\ updateCheckpoint(s, id, l, st)) =>
                 /\ Accepted'
                 /\ medicines'[id].status = st
       /\ Kind(tx'.revert) = "TerminalState" => tx'.op = "updateCheckpoint"]_vars

(* a Recalled record that a caller with no role has just moved to          *)
(* Verified, and that its owner can now move on                            *)
C20_Witness ==
    /\ tx.op = "verifyBatchLink"
    /\ Accepted
    /\ tx.sender \notin authorizedDistributors \cup {admin}
    /\ tx.before.exists
    /\ tx.before.status = Recalled
    /\ medicines[tx.id].status = Verified
    /\ ENABLED (/\ updateCheckpoint(medicines[tx.id].currentOwner, tx.id,
                                    "13.0,80.2", InTransit)
                /\ Accepted')

(* a caller that is not admin, in neither allowlist and the owner of no    *)
(* record                                                                  *)
NoRole(s) ==
    /\ s # admin
    /\ s \notin authorizedManufacturers
    /\ s \notin authorizedDistributors
    /\ \A id \in MedicineIds : medicines[id].currentOwner # s

(* C21: a call by a caller with no role leaves admin, the allowlists and   *)
(* the policies as they were, creates no record, and changes a record only *)
(* through checkExpiryAndRecall or verifyBatchLink, only in its status,    *)
(* and only to Recalled or Verified.                                       *)
C21_NoRoleCaller ==
    [][\A s \in Addresses :
         (tx'.sender = s /\ NoRole(s)) =>
           /\ UNCHANGED <<admin, authorizedManufacturers, authorizedDistributors,
                          shelfLifePolicy>>
           /\ \A id \in MedicineIds :
                \/ medicines'[id] = medicines[id]
                \/ /\ tx'.op \in {"checkExpiryAndRecall", "verifyBatchLink"}
                   /\ medicines[id].exists
                   /\ \E st \in {Recalled, Verified} :
                        medicines'[id] = [medicines[id] EXCEPT !.status = st]]_vars

(* a caller with no role has moved a record at the retailer to Verified    *)
C21_Witness ==
    /\ tx.op = "verifyBatchLink"
    /\ Accepted
    /\ NoRole(tx.sender)
    /\ tx.before.status = AtRetailer
    /\ medicines[tx.id].status = Verified
    /\ medicines[tx.id].currentOwner = tx.before.currentOwner

(* C22: recallMedicine, checkExpiryAndRecall and verifyBatchLink change at *)
(* most the status of the record they name, so its owner, last location    *)
(* and time of last update stay; a call naming an id leaves every other    *)
(* record as it was; only authorizeUser changes an allowlist and only      *)
(* setShelfLifePolicy a policy.                                            *)
C22_Frame ==
    [][/\ \A id \in MedicineIds :
            (/\ tx'.id = id
             /\ tx'.op \in {"recallMedicine", "checkExpiryAndRecall", "verifyBatchLink"}) =>
               \E st \in Status : medicines'[id] = [medicines[id] EXCEPT !.status = st]
       /\ \A id \in MedicineIds :
            tx'.id # id => medicines'[id] = medicines[id]
       /\ tx'.op # "authorizeUser" =>
            UNCHANGED <<authorizedManufacturers, authorizedDistributors>>
       /\ tx'.op # "setShelfLifePolicy" => UNCHANGED shelfLifePolicy
       /\ admin' = admin]_vars

(* the second record recalled on a batch mismatch while the first, sold    *)
(* by alice, is as alice left it                                           *)
C22_Witness ==
    /\ tx.op = "verifyBatchLink"
    /\ tx.id = "M-2"
    /\ Accepted
    /\ medicines["M-2"].status = Recalled
    /\ medicines["M-2"].currentOwner = admin
    /\ medicines["M-1"].exists
    /\ medicines["M-1"].status = Sold
    /\ medicines["M-1"].currentOwner = "alice"

(* C23: once a record exists, its id, batch id, name, expected weight,     *)
(* place and date of manufacture and expiry date are the same after any    *)
(* step, whoever takes it.                                                 *)
C23_RegisteredFieldsFixed ==
    [][\A id \in MedicineIds :
         medicines[id].exists =>
           /\ medicines'[id].medicineId = medicines[id].medicineId
           /\ medicines'[id].batchId = medicines[id].batchId
           /\ medicines'[id].name = medicines[id].name
           /\ medicines'[id].expectedWeight = medicines[id].expectedWeight
           /\ medicines'[id].manufacturerLoc = medicines[id].manufacturerLoc
           /\ medicines'[id].manufactureDate = medicines[id].manufactureDate
           /\ medicines'[id].expiryDate = medicines[id].expiryDate]_vars

(* a record registered in the first block, moved by alice in a later one,  *)
(* with what registration wrote                                            *)
C23_Witness ==
    /\ tx.op = "updateCheckpoint"
    /\ Accepted
    /\ tx.sender = "alice"
    /\ tx.before.exists
    /\ now > StartTime
    /\ medicines[tx.id].medicineId = tx.id
    /\ medicines[tx.id].batchId = B1
    /\ medicines[tx.id].name = "Paracetamol"
    /\ medicines[tx.id].expectedWeight = 500
    /\ medicines[tx.id].manufacturerLoc = "12.9,77.6"
    /\ medicines[tx.id].manufactureDate = StartTime
    /\ medicines[tx.id].expiryDate = 2 * ThirtyDays
    /\ medicines[tx.id].lastLocation = "13.0,80.2"
    /\ medicines[tx.id].status = Expired

(* C24: the caller is tested before anything else. updateCheckpoint by a   *)
(* caller neither owner nor distributor fails as not authorized whatever   *)
(* the status, and only an authorized caller is told of a terminal state,  *)
(* Recalled or Sold; registerMedicine by a caller who is no manufacturer   *)
(* fails as not authorized even when the id is taken; recallMedicine by a  *)
(* caller who is not admin fails as not authorized even when there is no   *)
(* such record.                                                            *)
C24_AuthorizationFirst ==
    [][/\ Called("updateCheckpoint") =>
            \A s \in Addresses, id \in TargetIds, l \in CheckpointLocations, st \in Status :
              updateCheckpoint(s, id, l, st) =>
                IF ~(s = medicines[id].currentOwner \/ s \in authorizedDistributors)
                THEN Kind(tx'.revert) = "NotAuthorized"
                ELSE IF medicines[id].status = Recalled
                THEN tx'.revert = "Zombie Detected" /\ Kind(tx'.revert) = "TerminalState"
                ELSE IF medicines[id].status = Sold
                THEN tx'.revert = "Evil Twin Detected" /\ Kind(tx'.revert) = "TerminalState"
                ELSE Accepted'
       /\ Called("registerMedicine") =>
            \A s \in Addresses, id \in TargetIds, a \in RegisterArgs :
              registerMedicine(s, id, a) =>
                IF s \notin authorizedManufacturers
                THEN Kind(tx'.revert) = "NotAuthorized"
                ELSE medicines[id].exists => Kind(tx'.revert) = "AlreadyExists"
       /\ Called("recallMedicine") =>
            \A s \in Addresses, id \in TargetIds, r \in Reasons :
              recallMedicine(s, id, r) =>
                IF s # admin
                THEN Kind(tx'.revert) = "NotAuthorized"
                ELSE ~medicines[id].exists => Kind(tx'.revert) = "NotFound"]_vars

(* a caller neither owner nor distributor turned away from a Recalled      *)
(* record as not authorized                                                *)
C24_Witness ==
    /\ tx.op = "updateCheckpoint"
    /\ tx.revert = "Ghost Detected"
    /\ tx.before.exists
    /\ tx.before.status = Recalled
    /\ tx.sender # tx.before.currentOwner
    /\ tx.sender \notin authorizedDistributors
    /\ medicines[tx.id].status = Recalled

====
